---- MODULE Spec2Model ----
(***************************************************************************)
(* Model of package logger (logger.go): the RotatingFileHandler, a byte    *)
(* sink that rotates its file by size, and the process-wide default        *)
(* Logger whose five channels fan out to the console and to that handler.  *)
(*                                                                         *)
(* The operating system is modelled as far as the code uses it: a set of   *)
(* directories, directory entries naming inodes, the inodes' contents and  *)
(* the table of file handles.  A file name stands for the active log file; *)
(* entry i > 0 of a file name is the backup "<fileName>.<i>".              *)
(***************************************************************************)
EXTENDS Integers, Sequences, FiniteSets, TLC

\* ---------------------------------------------------------------- bounds
MaxWrites == 5        \* calls of RotatingFileHandler.Write in SpecWriter
MaxLogCalls == 2      \* calls of Debug/Info/Warn/Error/Errorf in Spec
MaxFaults == 1        \* calls during which a system call fails for an outside reason
MaxMaxBytes == 2      \* largest maxBytes handed to StartEx / the constructor
MaxBackupCount == 3   \* largest backupCount handed to StartEx / the constructor
MaxConcCalls == 3     \* log calls made by the concurrent callers together

\* ------------------------------------------------------- program constants
LevelDebug == 1
LevelInfo == 2
LevelWarn == 4
LevelError == 8
MaxBytes == 10 * 1024 * 1024
BackupCount == 10

\* Levels a caller may pass: the four constants, and 0 and Debug|Info, which
\* are none of them.
Levels == {0, LevelDebug, LevelInfo, LevelWarn, LevelError, LevelDebug + LevelInfo}

\* <<maxBytes, backupCount>> pairs a caller may pass to StartEx.
ExArgs == {<<0, 1>>, <<1, 1>>}

\* File names a caller may pass ("" = no file sink) in Spec, the file names of a
\* caller that configures one file after another in SpecLifecycle, and path.Dir
\* of each.
FileNames == {"app.log", "d1/app.log"}
LifecycleFileNames == {"d1/app.log", "d2/app.log"}
AllFileNames == FileNames \cup LifecycleFileNames
Dir(fileName) ==
    CASE fileName = "app.log" -> "."
      [] fileName = "d1/app.log" -> "d1"
      [] fileName = "d2/app.log" -> "d2"

\* Lengths in bytes of a formatted line (prefix and newline included: never 0).
MsgLens == {1, 2}
\* The same for the lines logged through the default logger.
LogLens == {1}

MaxIdx == MaxBackupCount + 1

\* The goroutines that log concurrently, the functions they call and the
\* <<maxBytes, backupCount>> the logger they share was configured with.
Callers == {1, 2}
ConcOps == {"Debug", "Error", "Errorf", "Fatal"}
ConcArgs == {<<1, 1>>, <<1, 2>>}

\* The channel loggers of a Logger, and the one a function logs on.
Channels == {"Debug", "Info", "Warn", "Error", "Fatal"}
ChannelOf(op) ==
    CASE op = "Errorf" -> "Error"
      [] op = "Fatalf" -> "Fatal"
      [] OTHER -> op

NoFaults == [stat |-> FALSE, open |-> FALSE, write |-> FALSE]
Faults == [stat : BOOLEAN, open : BOOLEAN, write : BOOLEAN]
Faulty(faults) == faults # NoFaults

VARIABLES
    proc,           \* "running", "exited" (os.Exit) or "panicked"
    exitCode,       \* exit status once proc # "running"
    fsys,           \* the operating system's files, see NewFS
    handlers,       \* the RotatingFileHandler objects allocated so far
    defaultLogger,  \* the package variable defaultLogger
    rotLog,         \* per file name, the contents rotated out so far, oldest first
    nmsg,           \* lines formatted so far (the next line's marker)
    nfault,         \* calls so far during which a system call was made to fail
    last,           \* what the last call did and returned
    callers,        \* per concurrent caller: where it is in its call, see Idle
    mu              \* per channel logger, the caller holding its mutex (0: free)

vars == <<proc, exitCode, fsys, handlers, defaultLogger, rotLog, nmsg, nfault, last,
          callers, mu>>

\* ------------------------------------------------------------ file system
RECURSIVE Size(_)
\* Bytes of a file's content (a sequence of lines, each [id, n]).
Size(c) == IF c = <<>> THEN 0 ELSE Head(c).n + Size(Tail(c))

\* A fresh process: only the working directory exists, nothing is open.
NewFS ==
    [dirs    |-> {"."},
     names   |-> [f \in AllFileNames |-> [i \in 0..MaxIdx |-> 0]],
     inodes  |-> <<>>,     \* content of inode k
     durable |-> <<>>,     \* content of inode k on stable storage
     handles |-> <<>>]     \* handle k: [ino, open]

\* The error value os.ErrExist, and the error os.Mkdir returns for a directory
\* that exists: a *PathError around EEXIST, which is not the value os.ErrExist.
ErrExist == "os.ErrExist"
PathErrorExist == "&PathError{mkdir, EEXIST}"

\* os.Mkdir(dir): fails when the directory exists.
Mkdir(f, dir) ==
    IF dir \in f.dirs
    THEN [f |-> f, err |-> PathErrorExist]
    ELSE [f |-> [f EXCEPT !.dirs = @ \cup {dir}], err |-> "nil"]

\* os.OpenFile(fileName, O_CREATE|O_WRONLY|O_APPEND): the handle, 0 (nil) on error.
OpenFile(f, fileName, fail) ==
    IF fail \/ Dir(fileName) \notin f.dirs
    THEN [f |-> f, fd |-> 0]
    ELSE LET old == f.names[fileName][0]
             ino == IF old # 0 THEN old ELSE Len(f.inodes) + 1
             f1  == IF old # 0 THEN f
                    ELSE [f EXCEPT !.names[fileName][0] = ino,
                                   !.inodes = Append(@, <<>>),
                                   !.durable = Append(@, <<>>)]
         IN [f  |-> [f1 EXCEPT !.handles = Append(@, [ino |-> ino, open |-> TRUE])],
             fd |-> Len(f.handles) + 1]

\* A handle the process can use: not nil and not closed.
Usable(f, fd) == fd # 0 /\ f.handles[fd].open

\* (*os.File).Stat
Stat(f, fd, fail) ==
    IF ~Usable(f, fd) \/ fail
    THEN [err |-> TRUE, size |-> 0]
    ELSE [err |-> FALSE, size |-> Size(f.inodes[f.handles[fd].ino])]

\* (*os.File).Write on an append-mode handle.
FileWrite(f, fd, p, fail) ==
    IF ~Usable(f, fd) \/ fail
    THEN [f |-> f, err |-> TRUE]
    ELSE [f |-> [f EXCEPT !.inodes[f.handles[fd].ino] = Append(@, p)], err |-> FALSE]

\* (*os.File).Close: an error on a nil or already closed handle.
FileClose(f, fd) ==
    IF ~Usable(f, fd)
    THEN [f |-> f, err |-> TRUE]
    ELSE [f |-> [f EXCEPT !.handles[fd].open = FALSE], err |-> FALSE]

\* (*os.File).Sync
FileSync(f, fd) ==
    IF ~Usable(f, fd) THEN f
    ELSE [f EXCEPT !.durable[f.handles[fd].ino] = f.inodes[f.handles[fd].ino]]

\* os.Rename(fileName.i, fileName.j), its error ignored: nothing happens when
\* the source does not exist, otherwise the destination is replaced.
Rename(f, fileName, i, j) ==
    IF f.names[fileName][i] = 0 THEN f
    ELSE [f EXCEPT !.names[fileName][j] = f.names[fileName][i],
                   !.names[fileName][i] = 0]

\* Content of fileName.i (<<>> with Exists false when there is no such file).
Exists(f, fileName, i) == f.names[fileName][i] # 0
Content(f, fileName, i) ==
    IF Exists(f, fileName, i) THEN f.inodes[f.names[fileName][i]] ELSE <<>>

\* ---------------------------------------------------- RotatingFileHandler
\* NewRotatingFileHandler: [f, h, err]; h is the new object when err = "nil".
NewRotatingFileHandler(f, fileName, maxBytes, backupCount) ==
    LET mk == Mkdir(f, Dir(fileName))
        o  == OpenFile(mk.f, fileName, FALSE)
    IN IF mk.err # "nil" /\ mk.err # ErrExist
       THEN [f |-> mk.f, h |-> <<>>, err |-> mk.err]
       ELSE IF maxBytes <= 0
       THEN [f |-> mk.f, h |-> <<>>, err |-> "invalid max bytes"]
       ELSE IF o.fd = 0
       THEN [f |-> o.f, h |-> <<>>, err |-> "open"]
       ELSE [f |-> o.f,
             h |-> [fd |-> o.fd, fileName |-> fileName,
                    maxBytes |-> maxBytes, backupCount |-> backupCount],
             err |-> "nil"]

RECURSIVE ShiftBackupsFromCount(_, _, _)
\* ShiftBackups with the loop started one too high (i := backupCount).
ShiftBackupsFromCount(f, fileName, from) ==
    IF from < 0 THEN f
    ELSE ShiftBackupsFromCount(Rename(f, fileName, from + 1, from + 2), fileName, from - 1)

RECURSIVE ShiftUp(_, _, _, _)
\* ShiftBackups with the renames in ascending order (i := 1; i <= from; i++).
ShiftUp(f, fileName, i, from) ==
    IF i > from THEN f
    ELSE ShiftUp(Rename(f, fileName, i, i + 1), fileName, i + 1, from)
ShiftBackupsAscending(f, fileName, from) == ShiftUp(f, fileName, 1, from)

RECURSIVE ShiftBackups(_, _, _)
\* for i := from; i > 0; i-- { os.Rename(fileName.i, fileName.(i+1)) }
ShiftBackups(f, fileName, from) ==
    IF from <= 0 THEN f
    ELSE ShiftBackups(Rename(f, fileName, from, from + 1), fileName, from - 1)

\* NeedsRollover with the size test off by one (size <= maxBytes returns).
NeedsRolloverAbove(size, maxBytes) == ~(maxBytes <= 0) /\ ~(size <= maxBytes)

\* The size test of doRollover: rotate or not.
NeedsRollover(size, maxBytes) == ~(maxBytes <= 0) /\ ~(size < maxBytes)

\* KeepsBackups with the guard off by one (backupCount >= 0).
KeepsBackupsOrNone(backupCount) == backupCount >= 0

\* The guard around the close/rename/reopen block of doRollover.
KeepsBackups(backupCount) == backupCount > 0

\* doRollover that goes on after a failed Stat with the size of the file by name.
doRolloverDespiteStatError(f, h, faults) ==
    LET f1 == FileClose(f, h.fd).f
        f2 == ShiftBackups(f1, h.fileName, h.backupCount - 1)
        f3 == Rename(f2, h.fileName, 0, 1)
        o  == OpenFile(f3, h.fileName, faults.open)
    IN IF ~NeedsRollover(Size(Content(f, h.fileName, 0)), h.maxBytes)
       THEN [f |-> f, h |-> h, rotated |-> FALSE]
       ELSE IF KeepsBackups(h.backupCount)
       THEN [f |-> o.f, h |-> [h EXCEPT !.fd = o.fd], rotated |-> TRUE]
       ELSE [f |-> f, h |-> h, rotated |-> FALSE]

\* (*RotatingFileHandler).doRollover
doRollover(f, h, faults) ==
    LET st == Stat(f, h.fd, faults.stat)
        f1 == FileClose(f, h.fd).f
        f2 == ShiftBackups(f1, h.fileName, h.backupCount - 1)
        f3 == Rename(f2, h.fileName, 0, 1)
        o  == OpenFile(f3, h.fileName, faults.open)
    IN IF st.err THEN [f |-> f, h |-> h, rotated |-> FALSE]
       ELSE IF ~NeedsRollover(st.size, h.maxBytes) THEN [f |-> f, h |-> h, rotated |-> FALSE]
       ELSE IF KeepsBackups(h.backupCount)
       THEN [f |-> o.f, h |-> [h EXCEPT !.fd = o.fd], rotated |-> TRUE]
       ELSE [f |-> f, h |-> h, rotated |-> FALSE]

\* WriteAfter that opens the file again when the handle cannot be used.
WriteAfterReopening(r, p, fail) ==
    LET o == OpenFile(r.f, r.h.fileName, FALSE)
        w == FileWrite(o.f, o.fd, p, fail)
        v == FileWrite(r.f, r.h.fd, p, fail)
    IN IF Usable(r.f, r.h.fd)
       THEN [f |-> v.f, h |-> r.h, err |-> v.err, rotated |-> r.rotated]
       ELSE [f |-> w.f, h |-> [r.h EXCEPT !.fd = o.fd], err |-> w.err,
             rotated |-> r.rotated]

\* return h.fd.Write(p), r being what doRollover left.
WriteAfter(r, p, fail) ==
    LET w == FileWrite(r.f, r.h.fd, p, fail)
    IN [f |-> w.f, h |-> r.h, err |-> w.err, rotated |-> r.rotated]

\* (*RotatingFileHandler).Write
Write(f, h, p, faults) == WriteAfter(doRollover(f, h, faults), p, faults.write)

\* (*RotatingFileHandler).Close
Close(f, h) ==
    IF h.fd # 0 THEN FileClose(f, h.fd) ELSE [f |-> f, err |-> FALSE]

\* ------------------------------------------------------------------ Logger
\* A *log.Logger: nil (never created), or a writer that is the console stream
\* `out` ("discard" for ioutil.Discard), behind io.MultiWriter(handler, out)
\* when file # 0 (file is the handler's index in handlers).
NilLogger == [nil |-> TRUE, file |-> 0, out |-> "discard"]
NewLogger(w) == [nil |-> FALSE, file |-> w.file, out |-> w.out]

\* The zero value of the package variable.
ZeroLogger ==
    [Level |-> 0, Debug |-> NilLogger, Info |-> NilLogger, Warn |-> NilLogger,
     Error |-> NilLogger, Fatal |-> NilLogger, LogFile |-> 0]

\* The switch of doLogging with its fallthroughs: the stream of each channel.
debugHandle(logLevel) == IF logLevel = LevelDebug THEN "stdout" ELSE "discard"
infoHandle(logLevel) ==
    IF logLevel \in {LevelDebug, LevelInfo} THEN "stdout" ELSE "discard"
warnHandle(logLevel) ==
    IF logLevel \in {LevelDebug, LevelInfo, LevelWarn} THEN "stdout" ELSE "discard"
\* errorHandle whose switch has a default case that routes errors to stderr.
errorHandleByDefault(logLevel) == "stderr"
errorHandle(logLevel) ==
    IF logLevel \in {LevelDebug, LevelInfo, LevelWarn, LevelError} THEN "stderr" ELSE "discard"
fatalHandle(logLevel) == errorHandle(logLevel)

\* if handle == std { handle = io.MultiWriter(fileHandler, handle) }
\* (fileHandler = 0 when fileName is empty: the block is skipped).
Wire(handle, std, fileHandler) ==
    IF fileHandler # 0 /\ handle = std
    THEN [file |-> fileHandler, out |-> handle]
    ELSE [file |-> 0, out |-> handle]

\* The Logger value doLogging stores; the Fatal channel is built on errorHandle.
MakeLogger(logLevel, fileHandler) ==
    [Level   |-> logLevel,
     Debug   |-> NewLogger(Wire(debugHandle(logLevel), "stdout", fileHandler)),
     Info    |-> NewLogger(Wire(infoHandle(logLevel), "stdout", fileHandler)),
     Warn    |-> NewLogger(Wire(warnHandle(logLevel), "stdout", fileHandler)),
     Error   |-> NewLogger(Wire(errorHandle(logLevel), "stderr", fileHandler)),
     Fatal   |-> NewLogger(Wire(errorHandle(logLevel), "stderr", fileHandler)),
     LogFile |-> fileHandler]

\* The writers of an io.MultiWriter are written in order and the first error
\* ends the call: the console is written only if the handler's Write succeeded.
ThenConsole(w, out) ==
    [f |-> w.f, h |-> w.h, file |-> ~w.err, rotated |-> w.rotated,
     console |-> IF w.err THEN "none" ELSE out]
MultiWrite(f, h, out, p, faults) == ThenConsole(Write(f, h, p, faults), out)

\* What Output leaves when the channel's writer is the MultiWriter whose Write did m.
Written(hs, l, m) ==
    [f |-> m.f, hs |-> [hs EXCEPT ![l.file] = m.h], panic |-> FALSE,
     file |-> m.file, rotated |-> m.rotated, console |-> m.console]

\* (*log.Logger).Output on channel logger l: one Write of the formatted line p.
Output(f, hs, l, p, faults) ==
    IF l.nil
    THEN [f |-> f, hs |-> hs, panic |-> TRUE, file |-> FALSE, rotated |-> FALSE,
          console |-> "none"]
    ELSE IF l.file # 0
    THEN Written(hs, l, MultiWrite(f, hs[l.file], l.out, p, faults))
    ELSE [f |-> f, hs |-> hs, panic |-> FALSE, file |-> FALSE, rotated |-> FALSE,
          console |-> IF l.out = "discard" THEN "none" ELSE l.out]

\* ------------------------------------------------------------ observation
\* State of handler h's handle: "open", "closed" or "nil".
HandleState(f, h) ==
    IF h.fd = 0 THEN "nil" ELSE IF f.handles[h.fd].open THEN "open" ELSE "closed"

\* State of the default logger's file handle ("none": no LogFile).
LogFileState ==
    IF defaultLogger.LogFile = 0 THEN "none"
    ELSE HandleState(fsys, handlers[defaultLogger.LogFile])

Call(op, id, console, file, rotated, ret, hstate0, size0, faults) ==
    [op |-> op, id |-> id, console |-> console, file |-> file, rotated |-> rotated,
     ret |-> ret, hstate0 |-> hstate0, size0 |-> size0, clean |-> ~Faulty(faults),
     faults |-> faults]

\* rotLog after a call on fileName that did or did not rotate, from the state before.
Rotated(fileName, rotated) ==
    IF rotated
    THEN [rotLog EXCEPT ![fileName] = Append(@, Content(fsys, fileName, 0))]
    ELSE rotLog

\* A caller that is in no call.  In a call: pc is the step it is about to
\* take, op the function, id the line's marker, i the index of the rename loop,
\* rot whether its doRollover went into the close/rename/reopen block.
Idle == [pc |-> "idle", op |-> "", id |-> 0, i |-> 0, rot |-> FALSE]

Init ==
    /\ proc = "running"
    /\ exitCode = 0
    /\ fsys = NewFS
    /\ handlers = <<>>
    /\ defaultLogger = ZeroLogger
    /\ rotLog = [f \in AllFileNames |-> <<>>]
    /\ nmsg = 0
    /\ nfault = 0
    /\ last = Call("init", 0, "none", FALSE, FALSE, "ok", "none", 0, NoFaults)
    /\ callers = [c \in Callers |-> Idle]
    /\ mu = [ch \in Channels |-> 0]

\* ------------------------------------------------- the handler used directly
\* The state after h, err := NewRotatingFileHandler("d1/app.log", maxBytes, backupCount)
\* succeeded in a fresh process.
InitWriter ==
    \E maxBytes \in 1..MaxMaxBytes, backupCount \in 0..MaxBackupCount :
        LET c == NewRotatingFileHandler(NewFS, "d1/app.log", maxBytes, backupCount)
        IN /\ proc = "running"
           /\ exitCode = 0
           /\ fsys = c.f
           /\ handlers = <<c.h>>
           /\ defaultLogger = ZeroLogger
           /\ rotLog = [f \in AllFileNames |-> <<>>]
           /\ nmsg = 0
           /\ nfault = 0
           /\ last = Call("New", 0, "none", FALSE, FALSE, c.err, "open", 0, NoFaults)
           /\ callers = [k \in Callers |-> Idle]
           /\ mu = [ch \in Channels |-> 0]

\* The environment makes the system calls of one call fail as `faults` says.
Inject(faults) ==
    /\ Faulty(faults) => nfault < MaxFaults
    /\ nfault' = IF Faulty(faults) THEN nfault + 1 ELSE nfault

\* The state after h.Write of line id did w.
WriteReturns(h, id, faults, w) ==
    /\ fsys' = w.f
    /\ handlers' = [handlers EXCEPT ![1] = w.h]
    /\ rotLog' = Rotated(h.fileName, w.rotated)
    /\ nmsg' = nmsg + 1
    /\ last' = Call("Write", id, "none", ~w.err, w.rotated,
                    IF w.err THEN "err" ELSE "nil", HandleState(fsys, h),
                    Size(Content(fsys, h.fileName, 0)), faults)

\* n, err := h.Write(p)
CallWrite ==
    /\ proc = "running"
    /\ nmsg < MaxWrites
    /\ \E n \in MsgLens, faults \in Faults :
        /\ Inject(faults)
        /\ WriteReturns(handlers[1], nmsg + 1, faults,
                        Write(fsys, handlers[1], [id |-> nmsg + 1, n |-> n], faults))
    /\ UNCHANGED <<proc, exitCode, defaultLogger, callers, mu>>

\* err := h.Close()
CallClose ==
    /\ proc = "running"
    /\ LET h == handlers[1]
           c == Close(fsys, h)
       IN /\ fsys' = c.f
          /\ last' = Call("Close", 0, "none", FALSE, FALSE,
                          IF c.err THEN "err" ELSE "nil", HandleState(fsys, h),
                          Size(Content(fsys, h.fileName, 0)), NoFaults)
    /\ UNCHANGED <<proc, exitCode, handlers, defaultLogger, rotLog, nmsg, nfault,
                   callers, mu>>

NextWriter == CallWrite \/ CallClose
SpecWriter == InitWriter /\ [][NextWriter]_vars

\* --------------------------------------------------- the default logger
\* Size of the default logger's active file (0 when it has no file sink).
LogFileSize ==
    IF defaultLogger.LogFile = 0 THEN 0
    ELSE Size(Content(fsys, handlers[defaultLogger.LogFile].fileName, 0))

\* doLogging(logLevel, fileName, maxBytes, backupCount); log.Fatal ends the
\* process with status 1 when the handler cannot be constructed.
doLogging(op, logLevel, fileName, maxBytes, backupCount) ==
    /\ proc = "running"
    /\ IF fileName # ""
       THEN LET c == NewRotatingFileHandler(fsys, fileName, maxBytes, backupCount)
            IN /\ fsys' = c.f
               /\ IF c.err # "nil"
                  THEN /\ proc' = "exited"
                       /\ exitCode' = 1
                       /\ last' = Call(op, 0, "stderr", FALSE, FALSE, c.err,
                                       LogFileState, LogFileSize, NoFaults)
                       /\ UNCHANGED <<handlers, defaultLogger>>
                  ELSE /\ handlers' = Append(handlers, c.h)
                       /\ defaultLogger' = MakeLogger(logLevel, Len(handlers) + 1)
                       /\ last' = Call(op, 0, "none", FALSE, FALSE, "ok",
                                       LogFileState, LogFileSize, NoFaults)
                       /\ UNCHANGED <<proc, exitCode>>
       ELSE /\ defaultLogger' = MakeLogger(logLevel, 0)
            /\ last' = Call(op, 0, "none", FALSE, FALSE, "ok",
                            LogFileState, LogFileSize, NoFaults)
            /\ UNCHANGED <<proc, exitCode, fsys, handlers>>
    /\ UNCHANGED <<rotLog, nmsg, nfault, callers, mu>>

\* Start(level, path) with path drawn from paths.
StartWith(paths) ==
    \E level \in Levels, path \in paths :
        doLogging("Start", level, path, MaxBytes, BackupCount)

\* StartEx(level, path, maxBytes, backupCount) with path drawn from paths.
StartExWith(paths) ==
    \E level \in Levels, path \in paths, a \in ExArgs :
        doLogging("StartEx", level, path, a[1], a[2])

Start == StartWith(FileNames \cup {""})
StartEx == StartExWith(FileNames \cup {""})

\* Stop: the error of LogFile.Close(), nil without a LogFile.
Stop ==
    /\ proc = "running"
    /\ LET c == IF defaultLogger.LogFile # 0
                THEN Close(fsys, handlers[defaultLogger.LogFile])
                ELSE [f |-> fsys, err |-> FALSE]
       IN /\ fsys' = c.f
          /\ last' = Call("Stop", 0, "none", FALSE, FALSE,
                          IF c.err THEN "err" ELSE "nil",
                          LogFileState, LogFileSize, NoFaults)
    /\ UNCHANGED <<proc, exitCode, handlers, defaultLogger, rotLog, nmsg, nfault,
                   callers, mu>>

\* The file system after Sync() of logger lg: LogFile.fd.Sync() if there is a LogFile.
SyncFile(f, hs, lg) ==
    IF lg.LogFile # 0 THEN FileSync(f, hs[lg.LogFile].fd) ELSE f

Sync ==
    /\ proc = "running"
    /\ fsys' = SyncFile(fsys, handlers, defaultLogger)
    /\ last' = Call("Sync", 0, "none", FALSE, FALSE, "ok",
                    LogFileState, LogFileSize, NoFaults)
    /\ UNCHANGED <<proc, exitCode, handlers, defaultLogger, rotLog, nmsg, nfault,
                   callers, mu>>

\* File name behind channel logger l ("" when it has no file writer).
FileOf(l) == IF l.file # 0 THEN handlers[l.file].fileName ELSE ""

\* The state after Output of line id on channel logger l did o: the error
\* Output returns is dropped, a panic ends the process.
OutputReturns(op, l, id, faults, o) ==
    /\ fsys' = o.f
    /\ handlers' = o.hs
    /\ rotLog' = IF l.file # 0 THEN Rotated(FileOf(l), o.rotated) ELSE rotLog
    /\ nmsg' = nmsg + 1
    /\ proc' = IF o.panic THEN "panicked" ELSE proc
    /\ exitCode' = IF o.panic THEN 2 ELSE exitCode
    /\ last' = Call(op, id, o.console, o.file, o.rotated,
                    IF o.panic THEN "panic" ELSE "ok",
                    LogFileState, LogFileSize, faults)

\* Debug, Info, Warn, Error, Errorf: defaultLogger.<ch>.Output(2, line).
LogCall(op, ch) ==
    /\ proc = "running"
    /\ nmsg < MaxLogCalls
    /\ \E n \in LogLens, faults \in Faults :
        /\ (defaultLogger[ch].nil \/ defaultLogger[ch].file = 0) => ~Faulty(faults)
        /\ Inject(faults)
        /\ OutputReturns(op, defaultLogger[ch], nmsg + 1, faults,
                         Output(fsys, handlers, defaultLogger[ch],
                                [id |-> nmsg + 1, n |-> n], faults))
    /\ UNCHANGED <<defaultLogger, callers, mu>>

Debug == LogCall("Debug", "Debug")
Info == LogCall("Info", "Info")
Warn == LogCall("Warn", "Warn")
Error == LogCall("Error", "Error")
Errorf == LogCall("Errorf", "Error")

\* What follows Output in Fatal and Fatalf, o being what Output did: Sync(),
\* os.Exit(255).  A panic in Output ends the call before Sync.
SyncAndExit(o, lg) ==
    IF o.panic
    THEN [o |-> o, f |-> o.f, proc |-> "panicked", exitCode |-> 2]
    ELSE [o |-> o, f |-> SyncFile(o.f, o.hs, lg), proc |-> "exited", exitCode |-> 255]

\* SyncAndExit without the call of Sync().
ExitOnly(o, lg) ==
    IF o.panic
    THEN [o |-> o, f |-> o.f, proc |-> "panicked", exitCode |-> 2]
    ELSE [o |-> o, f |-> o.f, proc |-> "exited", exitCode |-> 255]

\* FatalSteps without the call of Sync().
FatalStepsNoSync(f, hs, lg, p, faults) ==
    ExitOnly(Output(f, hs, lg.Fatal, p, faults), lg)

\* The body of Fatal and Fatalf on logger lg: Output on the Fatal channel,
\* Sync(), os.Exit(255).
FatalSteps(f, hs, lg, p, faults) ==
    SyncAndExit(Output(f, hs, lg.Fatal, p, faults), lg)

\* The state after the body of Fatal/Fatalf did r with line id.
FatalReturns(op, l, id, faults, r) ==
    /\ fsys' = r.f
    /\ handlers' = r.o.hs
    /\ rotLog' = IF l.file # 0 THEN Rotated(FileOf(l), r.o.rotated) ELSE rotLog
    /\ nmsg' = nmsg + 1
    /\ proc' = r.proc
    /\ exitCode' = r.exitCode
    /\ last' = Call(op, id, r.o.console, r.o.file, r.o.rotated,
                    IF r.o.panic THEN "panic" ELSE "exit",
                    LogFileState, LogFileSize, faults)

FatalCall(op) ==
    /\ proc = "running"
    /\ \E n \in LogLens, faults \in Faults :
        /\ (defaultLogger.Fatal.nil \/ defaultLogger.Fatal.file = 0) => ~Faulty(faults)
        /\ Inject(faults)
        /\ FatalReturns(op, defaultLogger.Fatal, nmsg + 1, faults,
                        FatalSteps(fsys, handlers, defaultLogger,
                                   [id |-> nmsg + 1, n |-> n], faults))
    /\ UNCHANGED <<defaultLogger, callers, mu>>

Fatal == FatalCall("Fatal")
Fatalf == FatalCall("Fatalf")

Next ==
    \/ Start \/ StartEx \/ Stop \/ Sync
    \/ Debug \/ Info \/ Warn \/ Error \/ Errorf
    \/ Fatal \/ Fatalf

Spec == Init /\ [][Next]_vars

\* ------------------------------------- one file configured after another
\* A single caller that calls Start/StartEx with non-empty paths, logs and stops.
StartFile == StartWith(LifecycleFileNames)
StartExFile == StartExWith(LifecycleFileNames)

NextLifecycle ==
    \/ StartFile \/ StartExFile \/ Stop
    \/ Debug \/ Info \/ Warn \/ Error \/ Errorf

SpecLifecycle == Init /\ [][NextLifecycle]_vars

\* ------------------------------------------------ callers that log at once
\* Two goroutines log through the default logger at the same time.  A call is
\* a sequence of steps, one per system call of Write and doRollover; the steps
\* of the two callers interleave.  h.fd is read and assigned without a lock:
\* each read sees the value the latest assignment stored.

\* The state after StartEx(LevelDebug, "d1/app.log", maxBytes, backupCount)
\* in a fresh process: every channel writes to the one handler.
InitConc ==
    \E a \in ConcArgs :
        LET c == NewRotatingFileHandler(NewFS, "d1/app.log", a[1], a[2])
        IN /\ proc = "running"
           /\ exitCode = 0
           /\ fsys = c.f
           /\ handlers = <<c.h>>
           /\ defaultLogger = MakeLogger(LevelDebug, 1)
           /\ rotLog = [f \in AllFileNames |-> <<>>]
           /\ nmsg = 0
           /\ nfault = 0
           /\ last = Call("StartEx", 0, "none", FALSE, FALSE, "ok", "none", 0, NoFaults)
           /\ callers = [k \in Callers |-> Idle]
           /\ mu = [ch \in Channels |-> 0]

\* The channel logger caller c logs on, and the handler behind it.
LoggerOf(c) == defaultLogger[ChannelOf(callers[c].op)]
HandlerOf(c) == handlers[LoggerOf(c).file]

\* l.mu.Lock() taken at once, whoever holds the mutex.
CanLockAlways(m, ch) == TRUE

\* l.mu.Lock() of channel logger ch can return: nobody holds its mutex.
CanLock(m, ch) == m[ch] = 0

\* A caller enters Debug, Error, Errorf or Fatal: Output locks the channel
\* logger's mutex and calls Write of the io.MultiWriter, whose first writer is
\* the handler.
Enter(c) ==
    /\ proc = "running"
    /\ callers[c].pc = "idle"
    /\ nmsg < MaxConcCalls
    /\ \E op \in ConcOps :
        /\ defaultLogger[ChannelOf(op)].file # 0
        /\ CanLock(mu, ChannelOf(op))
        /\ mu' = [mu EXCEPT ![ChannelOf(op)] = c]
        /\ callers' = [callers EXCEPT ![c] = [pc |-> "stat", op |-> op, id |-> nmsg + 1,
                                              i |-> 0, rot |-> FALSE]]
    /\ nmsg' = nmsg + 1
    /\ UNCHANGED <<proc, exitCode, fsys, handlers, defaultLogger, rotLog, nfault, last>>

\* doRollover up to its decision: f, err := h.fd.Stat() and the tests on err,
\* maxBytes, f.Size() and backupCount.
RolloverDue(f, h) ==
    /\ ~Stat(f, h.fd, FALSE).err
    /\ NeedsRollover(Stat(f, h.fd, FALSE).size, h.maxBytes)
    /\ KeepsBackups(h.backupCount)

StatStep(c) ==
    /\ proc = "running"
    /\ callers[c].pc = "stat"
    /\ callers' = [callers EXCEPT
                      ![c].pc = IF RolloverDue(fsys, HandlerOf(c)) THEN "close" ELSE "write",
                      ![c].rot = RolloverDue(fsys, HandlerOf(c))]
    /\ UNCHANGED <<proc, exitCode, fsys, handlers, defaultLogger, rotLog, nmsg, nfault,
                   last, mu>>

\* h.fd.Close(), and i := h.backupCount - 1 with the loop's first test.
CloseStep(c) ==
    /\ proc = "running"
    /\ callers[c].pc = "close"
    /\ fsys' = FileClose(fsys, HandlerOf(c).fd).f
    /\ callers' = [callers EXCEPT
                      ![c].i = HandlerOf(c).backupCount - 1,
                      ![c].pc = IF HandlerOf(c).backupCount - 1 > 0 THEN "shift"
                                ELSE "rename"]
    /\ UNCHANGED <<proc, exitCode, handlers, defaultLogger, rotLog, nmsg, nfault, last, mu>>

\* One turn of the loop: os.Rename(fileName.i, fileName.(i+1)); i--.
ShiftStep(c) ==
    /\ proc = "running"
    /\ callers[c].pc = "shift"
    /\ fsys' = Rename(fsys, HandlerOf(c).fileName, callers[c].i, callers[c].i + 1)
    /\ callers' = [callers EXCEPT
                      ![c].i = @ - 1,
                      ![c].pc = IF callers[c].i - 1 > 0 THEN "shift" ELSE "rename"]
    /\ UNCHANGED <<proc, exitCode, handlers, defaultLogger, rotLog, nmsg, nfault, last, mu>>

\* os.Rename(fileName, fileName.1); rotLog gets what is renamed, if anything.
RenameStep(c) ==
    /\ proc = "running"
    /\ callers[c].pc = "rename"
    /\ rotLog' = Rotated(HandlerOf(c).fileName, Exists(fsys, HandlerOf(c).fileName, 0))
    /\ fsys' = Rename(fsys, HandlerOf(c).fileName, 0, 1)
    /\ callers' = [callers EXCEPT ![c].pc = "reopen"]
    /\ UNCHANGED <<proc, exitCode, handlers, defaultLogger, nmsg, nfault, last, mu>>

\* Reopen that opens the file and does not assign the handle to h.fd.
ReopenUnassigned(f, h) == [f |-> OpenFile(f, h.fileName, FALSE).f, h |-> h]

\* h.fd, _ = os.OpenFile(h.fileName, ...)
Reopen(f, h) ==
    [f |-> OpenFile(f, h.fileName, FALSE).f,
     h |-> [h EXCEPT !.fd = OpenFile(f, h.fileName, FALSE).fd]]

ReopenStep(c) ==
    /\ proc = "running"
    /\ callers[c].pc = "reopen"
    /\ fsys' = Reopen(fsys, HandlerOf(c)).f
    /\ handlers' = [handlers EXCEPT ![LoggerOf(c).file] = Reopen(fsys, HandlerOf(c)).h]
    /\ callers' = [callers EXCEPT ![c].pc = "write"]
    /\ UNCHANGED <<proc, exitCode, defaultLogger, rotLog, nmsg, nfault, last, mu>>

\* The state after caller c's h.fd.Write(p) did w: the MultiWriter writes the
\* console if the file took the line, Output unlocks the mutex and returns;
\* Fatal goes on to Sync and os.Exit.
AppendReturns(c, w) ==
    /\ fsys' = w.f
    /\ last' = Call(callers[c].op, callers[c].id,
                    IF w.err THEN "none" ELSE LoggerOf(c).out, ~w.err, callers[c].rot,
                    "ok", HandleState(fsys, HandlerOf(c)),
                    Size(Content(fsys, HandlerOf(c).fileName, 0)), NoFaults)
    /\ mu' = [mu EXCEPT ![ChannelOf(callers[c].op)] = 0]
    /\ callers' = [callers EXCEPT
                      ![c] = IF callers[c].op \in {"Fatal", "Fatalf"}
                             THEN [@ EXCEPT !.pc = "sync"] ELSE Idle]

\* return h.fd.Write(p)
AppendStep(c) ==
    /\ proc = "running"
    /\ callers[c].pc = "write"
    /\ \E n \in LogLens :
        AppendReturns(c, FileWrite(fsys, HandlerOf(c).fd,
                                   [id |-> callers[c].id, n |-> n], FALSE))
    /\ UNCHANGED <<proc, exitCode, handlers, defaultLogger, rotLog, nmsg, nfault>>

\* Sync(); os.Exit(255) of Fatal: the process and every caller in it end.
ExitStep(c) ==
    /\ proc = "running"
    /\ callers[c].pc = "sync"
    /\ fsys' = SyncFile(fsys, handlers, defaultLogger)
    /\ proc' = "exited"
    /\ exitCode' = 255
    /\ callers' = [callers EXCEPT ![c].pc = "exit"]
    /\ UNCHANGED <<handlers, defaultLogger, rotLog, nmsg, nfault, last, mu>>

NextConc ==
    \E c \in Callers :
        \/ Enter(c) \/ StatStep(c) \/ CloseStep(c) \/ ShiftStep(c)
        \/ RenameStep(c) \/ ReopenStep(c) \/ AppendStep(c) \/ ExitStep(c)

SpecConc == InitConc /\ [][NextConc]_vars

\* ================================================================ claims
\* The handler of SpecWriter and its file name.
TheHandler == handlers[1]
TheFile == TheHandler.fileName
\* The line the last call formatted, of length n.
LastLine(n) == [id |-> last.id, n |-> n]
\* The backups of fileName that exist.
Backups(fileName) == {i \in 1..MaxIdx : Exists(fsys, fileName, i)}

\* C1: with backupCount = N > 0 and an empty chain at the start, after any
\* sequence of Write calls the backups that exist are among path.1 .. path.N,
\* and once a rotation has happened path.1 holds the content of the active
\* file most recently rotated out.
BackupBound ==
    TheHandler.backupCount > 0 =>
        /\ Backups(TheFile) \subseteq 1..TheHandler.backupCount
        /\ Cardinality(Backups(TheFile)) <= TheHandler.backupCount
        /\ rotLog[TheFile] # <<>> =>
              /\ Exists(fsys, TheFile, 1)
              /\ Content(fsys, TheFile, 1) = rotLog[TheFile][Len(rotLog[TheFile])]

\* More rotations than backups kept: the chain is full and the oldest was evicted.
BackupBoundWitness ==
    /\ TheHandler.backupCount = 2
    /\ Len(rotLog[TheFile]) = 4
    /\ Backups(TheFile) = {1, 2}

\* C2: with backupCount > 0 and no file-system error, a Write that starts with
\* the active file's size >= maxBytes rotates once before it appends (its bytes
\* are all the fresh file holds, path.1 is the file rotated out, of size >=
\* maxBytes), and a Write that starts below maxBytes does not rotate, whatever
\* the size it leaves behind.
ThresholdTrigger ==
    (/\ last.op = "Write"
     /\ last.clean
     /\ last.hstate0 = "open"
     /\ TheHandler.backupCount > 0) =>
        IF last.size0 >= TheHandler.maxBytes
        THEN /\ last.rotated
             /\ last.file
             /\ \E n \in MsgLens : Content(fsys, TheFile, 0) = <<LastLine(n)>>
             /\ Size(Content(fsys, TheFile, 1)) = last.size0
             /\ Size(Content(fsys, TheFile, 1)) >= TheHandler.maxBytes
             /\ Content(fsys, TheFile, 1) = rotLog[TheFile][Len(rotLog[TheFile])]
        ELSE /\ ~last.rotated
             /\ last.file
             /\ \E n \in MsgLens :
                   /\ Content(fsys, TheFile, 0)[Len(Content(fsys, TheFile, 0))] = LastLine(n)
                   /\ Size(Content(fsys, TheFile, 0)) = last.size0 + n

\* A Write that found the file above the threshold (the Write before it
\* crossed it without rotating) and rotated.
ThresholdTriggerWitness ==
    /\ last.op = "Write"
    /\ last.clean
    /\ last.hstate0 = "open"
    /\ TheHandler.backupCount > 0
    /\ last.size0 > TheHandler.maxBytes
    /\ last.rotated

\* C3, as claimed: with backupCount = 3 and an empty chain at the start, after
\* exactly 4 rotations path.3 holds the content rotated out by rotation #1 and
\* path.1 that of rotation #4.
RenameOrderClaimed ==
    (TheHandler.backupCount = 3 /\ Len(rotLog[TheFile]) = 4) =>
        /\ Content(fsys, TheFile, 3) = rotLog[TheFile][1]
        /\ Content(fsys, TheFile, 1) = rotLog[TheFile][4]

\* C3, amended: with backupCount = 3 and an empty chain at the start, after
\* exactly 4 rotations path.3 holds the content rotated out by rotation #2 (the
\* oldest retained), path.2 that of rotation #3 and path.1 that of rotation #4;
\* the content of rotation #1 is in no backup.
RenameOrder ==
    (TheHandler.backupCount = 3 /\ Len(rotLog[TheFile]) = 4) =>
        /\ Backups(TheFile) = {1, 2, 3}
        /\ Content(fsys, TheFile, 3) = rotLog[TheFile][2]
        /\ Content(fsys, TheFile, 2) = rotLog[TheFile][3]
        /\ Content(fsys, TheFile, 1) = rotLog[TheFile][4]
        /\ \A i \in 1..3 : Content(fsys, TheFile, i) # rotLog[TheFile][1]

\* Four rotations with three backups kept.
RenameOrderWitness ==
    /\ TheHandler.backupCount = 3
    /\ Len(rotLog[TheFile]) = 4
    /\ last.op = "Write"
    /\ last.rotated

\* C4: with backupCount = 0, after any sequence of Write calls there is no
\* path.1 (nor any other backup), no Write closes, renames or reopens the
\* active file, and every Write that succeeds appends to the one file opened at
\* construction, whose size never decreases.
ZeroBackups ==
    TheHandler.backupCount = 0 =>
        /\ Backups(TheFile) = {}
        /\ rotLog[TheFile] = <<>>
        /\ Len(fsys.handles) = 1
        /\ TheHandler.fd = 1
        /\ fsys.names[TheFile][0] = fsys.handles[1].ino
        /\ last.op = "Write" =>
              /\ ~last.rotated
              /\ HandleState(fsys, TheHandler) = last.hstate0
              /\ Size(Content(fsys, TheFile, 0)) >= last.size0
              /\ last.file => \E n \in MsgLens :
                    /\ Content(fsys, TheFile, 0)[Len(Content(fsys, TheFile, 0))] = LastLine(n)
                    /\ Size(Content(fsys, TheFile, 0)) = last.size0 + n

\* A Write that started at or above the threshold, for the second time, and appended.
ZeroBackupsWitness ==
    /\ TheHandler.backupCount = 0
    /\ last.op = "Write"
    /\ last.file
    /\ last.size0 >= TheHandler.maxBytes + 1
    /\ Size(Content(fsys, TheFile, 0)) > 2 * TheHandler.maxBytes

\* ------------------------------------------------ the default logger's claims
LogOps == {"Debug", "Info", "Warn", "Error", "Errorf"}
FatalOps == {"Fatal", "Fatalf"}
\* The channel logger the last call used.
LastLogger == defaultLogger[ChannelOf(last.op)]
\* The default logger's file name.
ActiveFile == handlers[defaultLogger.LogFile].fileName
\* What stable storage holds of fileName.
OnDisk(fileName) ==
    IF Exists(fsys, fileName, 0) THEN fsys.durable[fsys.names[fileName][0]] ELSE <<>>
HasLine(c, id) == \E k \in 1..Len(c) : c[k].id = id
ValidLevels == {LevelDebug, LevelInfo, LevelWarn, LevelError}

\* C5: when a severity is active and a file sink is configured, a log call at
\* that severity reaches the console whatever the state of the file sink
\* (handle closed by Stop, reopen failed, write error).
IndependentFanOut ==
    (/\ last.op \in LogOps \cup FatalOps
     /\ ~LastLogger.nil
     /\ LastLogger.out # "discard"
     /\ defaultLogger.LogFile # 0) =>
        last.console = LastLogger.out

\* C6, as claimed: every Fatal or Fatalf with a file sink configured ends the
\* process with status 255 after the line was written to the file and synced:
\* the line is in the active file, on stable storage, when the process exits.
FatalFlushThenExitClaimed ==
    (last.op \in FatalOps /\ defaultLogger.LogFile # 0) =>
        /\ proc = "exited"
        /\ exitCode = 255
        /\ last.file
        /\ HasLine(Content(fsys, ActiveFile, 0), last.id)
        /\ HasLine(OnDisk(ActiveFile), last.id)

\* C6, amended: every Fatal or Fatalf of a single caller, with a file sink
\* configured at one of the four levels, the file handle open when the call
\* starts and no file-system error during the call, ends the process with
\* status 255 after the line was written to the file and synced: the line is
\* in the active file (the fresh one if the call rotated), on stable storage,
\* when the process exits.
FatalFlushThenExit ==
    (/\ last.op \in FatalOps
     /\ defaultLogger.LogFile # 0
     /\ defaultLogger.Level \in ValidLevels
     /\ last.hstate0 = "open"
     /\ last.clean) =>
        /\ proc = "exited"
        /\ exitCode = 255
        /\ last.file
        /\ last.console = "stderr"
        /\ HasLine(Content(fsys, ActiveFile, 0), last.id)
        /\ HasLine(OnDisk(ActiveFile), last.id)

\* A Fatal that rotated the file before it wrote.
FatalFlushThenExitWitness ==
    /\ last.op \in FatalOps
    /\ defaultLogger.LogFile # 0
    /\ defaultLogger.Level \in ValidLevels
    /\ last.hstate0 = "open"
    /\ last.clean
    /\ last.rotated
    /\ proc = "exited"

LevelRank(level) ==
    CASE level = LevelDebug -> 1
      [] level = LevelInfo -> 2
      [] level = LevelWarn -> 3
      [] level = LevelError -> 4
SeverityRank(ch) ==
    CASE ch = "Debug" -> 1
      [] ch = "Info" -> 2
      [] ch = "Warn" -> 3
      [] ch = "Error" -> 4
      [] ch = "Fatal" -> 5
StreamOf(ch) == IF ch \in {"Error", "Fatal"} THEN "stderr" ELSE "stdout"
\* The last call's severity is at or above the configured level.
LastActive == SeverityRank(ChannelOf(last.op)) >= LevelRank(defaultLogger.Level)

\* C7: under a level L of the four, a call at severity S produces output iff
\* S >= L (Debug < Info < Warn < Error <= Fatal): a gated-out severity reaches
\* no sink, an active one reaches the console (stdout for Debug/Info/Warn,
\* stderr for Error/Fatal) and, iff a path is configured, the file.  Stated of
\* the calls during which no system call fails for an outside reason, and of
\* the file only while its handle is open.
LevelGating ==
    (/\ last.op \in LogOps \cup FatalOps
     /\ defaultLogger.Level \in ValidLevels
     /\ last.clean) =>
        /\ LastActive => last.console = StreamOf(ChannelOf(last.op))
        /\ ~LastActive => (last.console = "none" /\ ~last.file)
        /\ last.file => (LastActive /\ defaultLogger.LogFile # 0)
        /\ (LastActive /\ defaultLogger.LogFile # 0 /\ last.hstate0 = "open") => last.file

\* The gating of C7 in the calls whose file sink, if any, can be written.
LevelGatingWritable ==
    (/\ last.op \in LogOps \cup FatalOps
     /\ defaultLogger.Level \in ValidLevels
     /\ defaultLogger.LogFile # 0 => (last.hstate0 = "open" /\ last.clean)) =>
        /\ LastActive => last.console = StreamOf(ChannelOf(last.op))
        /\ ~LastActive => (last.console = "none" /\ ~last.file)
        /\ last.file <=> (LastActive /\ defaultLogger.LogFile # 0)

\* C8: Stop (Close) on a handle that is already closed returns no error.
CloseIdempotent ==
    (last.op = "Stop" /\ last.hstate0 = "closed") => last.ret = "nil"

\* C9: after a Stop no file handle the logger opened is still open: every
\* handle opened at construction or at a reopen has been closed, those of
\* earlier configurations included.
HandlesClosed ==
    last.op = "Stop" => \A k \in 1..Len(fsys.handles) : ~fsys.handles[k].open

\* C10: in every lifecycle state of the default logger (before Start too) a
\* call of Debug, Info, Warn, Error or Errorf returns normally.
LoggingNeverFails ==
    last.op \in LogOps => (last.ret = "ok" /\ proc = "running")

\* C11: Start(level, path) constructs the handler with maxBytes = MaxBytes > 0
\* and an openable path, so it succeeds whether the parent directory of path
\* is absent (it is created) or exists already (the directory "." of
\* "app.log", or "d1" at a second Start).
ConstructTolerant ==
    last.op = "Start" => (last.ret = "ok" /\ proc = "running")

\* The rotations of TheFile so far, oldest first: what each one rotated out.
RotatedOut == rotLog[TheFile]

Min(a, b) == IF a < b THEN a ELSE b

\* C14: with backupCount = N > 0 and k rotations so far, exactly path.1 ..
\* path.min(k,N) exist, path.i holds what rotation k-i+1 rotated out, no
\* rotated-out content is in two backups, and the content of rotation j is
\* gone from the chain exactly when j <= k-N (it was in path.N when a further
\* rotation ran).
ChainOrder ==
    LET N == TheHandler.backupCount
        k == Len(RotatedOut)
    IN N > 0 =>
        /\ Backups(TheFile) = 1..Min(k, N)
        /\ \A i \in 1..Min(k, N) : Content(fsys, TheFile, i) = RotatedOut[k - i + 1]
        /\ \A i, j \in 1..Min(k, N) :
              i # j => Content(fsys, TheFile, i) # Content(fsys, TheFile, j)
        /\ \A j \in 1..k :
              (\E i \in Backups(TheFile) : Content(fsys, TheFile, i) = RotatedOut[j])
                  <=> j > k - N

\* Three rotations with N = 2 and no injected error: the first content is lost,
\* path.2 holds the second and path.1 the third.
ChainOrderWitness ==
    /\ TheHandler.backupCount = 2
    /\ Len(RotatedOut) = 3
    /\ nfault = 0
    /\ Content(fsys, TheFile, 2) = RotatedOut[2]
    /\ Content(fsys, TheFile, 1) = RotatedOut[3]

\* The Stat at the start of call c failed: made to fail, or on a closed or nil handle.
StatFailed(c) == c.faults.stat \/ c.hstate0 # "open"

\* C16: a Write whose Stat fails closes, renames and reopens nothing (names,
\* handles and the stored handle are as before, no rotation is recorded), and
\* what it does and returns is the append on the handle it started with.
FailOpenOnStat ==
    [][(last'.op = "Write" /\ nmsg' = nmsg + 1 /\ StatFailed(last')) =>
          /\ fsys'.names = fsys.names
          /\ fsys'.handles = fsys.handles
          /\ handlers' = handlers
          /\ ~last'.rotated
          /\ rotLog' = rotLog
          /\ \E n \in MsgLens :
                LET a == FileWrite(fsys, TheHandler.fd, [id |-> last'.id, n |-> n],
                                   last'.faults.write)
                IN /\ fsys' = a.f
                   /\ last'.ret = IF a.err THEN "err" ELSE "nil"
                   /\ last'.file = ~a.err]_vars

\* A Write that found the file at its threshold, with backups kept, whose Stat
\* was made to fail: it appended to the full file.
FailOpenOnStatWitness ==
    /\ last.op = "Write"
    /\ last.faults.stat /\ ~last.faults.write
    /\ last.hstate0 = "open"
    /\ TheHandler.backupCount > 0
    /\ last.size0 >= TheHandler.maxBytes
    /\ last.file
    /\ Size(Content(fsys, TheFile, 0)) > last.size0

\* C17: while the handle of the configured file writer is closed (Stop closed
\* it and no Start/StartEx has configured the logger since), a step of Debug,
\* Info, Warn, Error or Errorf changes no file, no directory entry and no
\* handle: nothing is appended, rotated, renamed or reopened.
StoppedInert ==
    [][(LogFileState = "closed" /\ last'.op \in LogOps /\ nmsg' = nmsg + 1) =>
          /\ fsys' = fsys
          /\ handlers' = handlers
          /\ rotLog' = rotLog
          /\ ~last'.file
          /\ ~last'.rotated]_vars

\* A call after Stop on a channel wired to the file, the file being at its
\* threshold: had the handle been open the call would have rotated and appended.
StoppedInertWitness ==
    /\ last.op \in LogOps
    /\ last.hstate0 = "closed"
    /\ LastLogger.file # 0
    /\ last.size0 >= handlers[LastLogger.file].maxBytes
    /\ handlers[LastLogger.file].backupCount > 0
    /\ proc = "running"

\* C19: once Start/StartEx has run with a level that is none of LevelDebug,
\* LevelInfo, LevelWarn, LevelError, all five channels write to discard and
\* none to the file; the handler of a non-empty path is constructed all the
\* same (its file exists and a handle on it was opened); no call writes to
\* the console or to a file, and Fatal/Fatalf end the process with status 255.
UnrecognisedLevel ==
    (~defaultLogger.Fatal.nil /\ defaultLogger.Level \notin ValidLevels) =>
        /\ \A ch \in Channels :
              defaultLogger[ch].out = "discard" /\ defaultLogger[ch].file = 0
        /\ defaultLogger.LogFile # 0 =>
              /\ Exists(fsys, ActiveFile, 0)
              /\ handlers[defaultLogger.LogFile].fd # 0
              /\ fsys.handles[handlers[defaultLogger.LogFile].fd].ino
                     = fsys.names[ActiveFile][0]
        /\ last.op \in LogOps \cup FatalOps =>
              /\ last.console = "none"
              /\ ~last.file
              /\ \A fn \in AllFileNames, i \in 0..MaxIdx :
                    ~HasLine(Content(fsys, fn, i), last.id)
        /\ last.op \in FatalOps => (proc = "exited" /\ exitCode = 255)

\* Fatal or Fatalf after a Start with level Debug|Info and a path: the file
\* was created and opened, the process ended with 255 and the file is empty.
UnrecognisedLevelWitness ==
    /\ defaultLogger.Level = LevelDebug + LevelInfo
    /\ ~defaultLogger.Fatal.nil
    /\ defaultLogger.LogFile # 0
    /\ LogFileState = "open"
    /\ last.op \in FatalOps
    /\ exitCode = 255
    /\ Content(fsys, ActiveFile, 0) = <<>>

\* Caller b is inside the close/rename/reopen block of doRollover: it has
\* closed the handle and not yet stored a new one.
Rotating(b) == callers[b].pc \in {"shift", "rename", "reopen"}

\* This step is caller c's h.fd.Write(p).
Appends(c) == callers[c].pc = "write" /\ callers'[c].pc # "write"

\* The line with marker id is in no file, neither the active one nor a backup.
InNoFile(f, id) ==
    \A fn \in AllFileNames, i \in 0..MaxIdx : ~HasLine(Content(f, fn, i), id)

\* C12: two callers on different channels share the handler.  A caller's
\* append puts its line into the active file unless the handle it is issued
\* on is stale, and a stale handle is the other caller's doing: either the
\* other caller's rotation has closed it and not yet reopened (the append
\* fails and the line is in no file), or the other caller has renamed the
\* handle's file to path.1 and not yet reopened (the line lands in path.1).
\* That such an append is reachable is RaceLosesLineWitness.
RaceLosesLine ==
    [][\A c \in Callers : Appends(c) =>
          LET fd == TheHandler.fd
              id == callers[c].id
              live == Usable(fsys, fd)
              atPath == live /\ fsys.handles[fd].ino = fsys.names[TheFile][0]
          IN /\ HasLine(Content(fsys', TheFile, 0), id) <=> atPath
             /\ ~live =>
                   /\ \E b \in Callers \ {c} : Rotating(b)
                   /\ InNoFile(fsys', id)
                   /\ ~last'.file
             /\ (live /\ ~atPath) =>
                   /\ \E b \in Callers \ {c} : callers[b].pc = "reopen"
                   /\ fsys.handles[fd].ino = fsys.names[TheFile][1]
                   /\ HasLine(Content(fsys', TheFile, 1), id)]_vars

\* An append just issued on the handle the other caller's rotation closed:
\* it failed, the other caller is still rotating and the line is in no file.
RaceLosesLineWitness ==
    /\ last.op \in ConcOps
    /\ ~last.file
    /\ last.hstate0 = "closed"
    /\ InNoFile(fsys, last.id)
    /\ \E b \in Callers :
          /\ Rotating(b)
          /\ callers[b].id # last.id
          /\ ChannelOf(callers[b].op) # ChannelOf(last.op)

\* C13: in every state, concurrent writers and overlapping rotations
\* included, every handle the handler opened other than the one stored in
\* h.fd has been closed: at most one is open.
SingleLiveHandle ==
    \A k \in 1..Len(fsys.handles) : fsys.handles[k].open => k = TheHandler.fd

\* C15: every file a rotation renamed to path.1 had size >= maxBytes when it
\* was renamed, with several callers logging on different channels too: no
\* empty or under-threshold file enters the backup chain.
RotatedOutAtThreshold ==
    \A k \in 1..Len(rotLog[TheFile]) :
        Size(rotLog[TheFile][k]) >= TheHandler.maxBytes

\* Caller c is inside the handler's check-size -> rotate -> append sequence.
InSequence(c) ==
    callers[c].pc \in {"stat", "close", "shift", "rename", "reopen", "write"}

\* C18: two callers that are inside the handler's check-size -> rotate ->
\* append sequence at the same time are on different channel loggers (Error
\* and Errorf are one logger, Error and Fatal are two), and a caller inside
\* the sequence holds its channel logger's mutex.
PerChannelSerial ==
    /\ \A a, b \in Callers :
          (a # b /\ InSequence(a) /\ InSequence(b)) =>
              ChannelOf(callers[a].op) # ChannelOf(callers[b].op)
    /\ \A c \in Callers : InSequence(c) => mu[ChannelOf(callers[c].op)] = c

\* An Error call and a Fatal call inside the sequence of the one handler at
\* once, one of them rotating.
PerChannelSerialWitness ==
    \E a, b \in Callers :
        /\ callers[a].op = "Error" /\ callers[b].op = "Fatal"
        /\ Rotating(a) /\ InSequence(b)
        /\ LoggerOf(a).file = LoggerOf(b).file

====
